---- MODULE Spec2Model ----
(***************************************************************************)
(* Model of mson's base Component (src/src/mson/component/component.js):   *)
(* the reflective property store, the EventEmitter it extends, the         *)
(* listener/action wiring with its asynchronous action chains, schema      *)
(* accumulation, identity keys and clone().                                *)
(*                                                                         *)
(* Synchronous JavaScript runs to completion, so every public operation    *)
(* (constructor, set, get, emitLoad, clone) is one action.  The only       *)
(* suspension points are the `await`s inside a listener's action chain:    *)
(* each awaited action.run() is settled by a separate Resolve or Reject    *)
(* step.                                                                   *)
(*                                                                         *)
(* The module also models the close guard of the React FormDialog          *)
(* (src/src/mson-react/form-dialog.js): its state.open, the props it reads *)
(* and the calls it makes to props.onClose.                                *)
(***************************************************************************)
EXTENDS Integers, Sequences, FiniteSets, TLC

VARIABLES
  objs,     \* the component instances ever created, in order of creation;
            \* each is the map of its own enumerable fields
  heap,     \* the mutable arrays allocated by _push: reference -> elements
  nextKey,  \* the module-level counter behind getNextKey
  tasks,    \* listener chains suspended at an await
  firings,  \* history: one record per emission of create / load
  emitted,  \* history: per component, the events emitted by the last step
  started,  \* history: the listener handlers invoked by the last step
  call,     \* history: the last operation, its argument and its outcome
  dialog    \* a mounted FormDialog: its state, its props, and history: the
            \* number of calls of props.onClose

vars == <<objs, heap, nextKey, tasks, firings, emitted, started, call, dialog>>

(***************************************************************************)
(* Bounds of the model.                                                    *)
(***************************************************************************)
MaxComps == 2      \* component instances (constructed or cloned)
MaxHandlers == 2   \* listener handlers subscribed on one component
MaxSchemaLen == 3  \* fragments in one schema sequence
MaxFirings == 3    \* emissions of create / load
MaxTasks == 2      \* listener chains suspended at the same time
MaxCloneFirings == 2  \* emissions of create / load among several components
MaxBubbles == 2    \* bubbling handlers subscribed on one component
MaxCloses == 2     \* calls of a dialog's props.onClose

(***************************************************************************)
(* JavaScript values.  Primitives compare by content, objects, arrays and  *)
(* functions by reference: `ref` is the identity of an object.             *)
(***************************************************************************)
Undefined == [t |-> "undefined"]
Null == [t |-> "null"]
Str(s) == [t |-> "string", s |-> s]
Num(n) == [t |-> "number", n |-> n]
Bool(b) == [t |-> "boolean", b |-> b]
Obj(ref, data) == [t |-> "object", ref |-> ref, data |-> data]
Arr(ref, items) == [t |-> "array", ref |-> ref, items |-> items]
HeapArr(ref) == [t |-> "heaparray", ref |-> ref]

\* typeof
TypeOf(v) ==
  IF v.t \in {"null", "object", "array", "heaparray", "events"} THEN "object" ELSE v.t

\* Array.isArray
IsArray(v) == v.t \in {"array", "heaparray"}

\* props[name] on a value that passed the typeof test; reading a property of
\* null raises a TypeError, an array has none of the recognized names
CanRead(props) == props.t # "null" /\ props.t # "undefined"
Prop(props, name) ==
  IF props.t = "object" /\ name \in DOMAIN props.data THEN props.data[name]
  ELSE Undefined

\* a property name is a sequence of tokens, so that '_' + name and
\* name.replace('_', '') are computed rather than assumed
Name(s) == <<s>>
Private(name) == <<"_">> \o name

RECURSIVE ReplaceFirstUnderscore(_)
ReplaceFirstUnderscore(name) ==
  IF name = <<>> THEN <<>>
  ELSE IF Head(name) = "_" THEN Tail(name)
  ELSE <<Head(name)>> \o ReplaceFirstUnderscore(Tail(name))

\* own fields of an instance
Field(o, f) == IF f \in DOMAIN o THEN o[f] ELSE Undefined
WithField(o, f, v) == [g \in DOMAIN o \cup {f} |-> IF g = f THEN v ELSE o[g]]

(***************************************************************************)
(* events.EventEmitter: _events maps an event name to its handlers in      *)
(* subscription order.                                                     *)
(***************************************************************************)
EventsField == Private(Name("events"))
EventsCountField == Private(Name("eventsCount"))
MaxListenersField == Private(Name("maxListeners"))

Events(subs) == [t |-> "events", subs |-> subs]
NoSubs == [e \in {} |-> <<>>]

EventEmitterInit ==
  [f \in {EventsField, EventsCountField, MaxListenersField} |->
     IF f = EventsField THEN Events(NoSubs)
     ELSE IF f = EventsCountField THEN Num(0)
     ELSE Undefined]

ListenersOf(o, ev) ==
  LET subs == o[EventsField].subs
  IN IF ev \in DOMAIN subs THEN subs[ev] ELSE <<>>

WithSubs(o, subs) ==
  [o EXCEPT ![EventsField] = Events(subs),
            ![EventsCountField] = Num(Cardinality(DOMAIN subs))]

On(o, ev, h) ==
  LET subs == o[EventsField].subs
  IN WithSubs(o, [e \in DOMAIN subs \cup {ev} |->
                    IF e = ev THEN Append(ListenersOf(o, ev), h) ELSE subs[e]])

\* removes the most recently added instance of h, if any
RemoveListener(o, ev, h) ==
  LET subs == o[EventsField].subs
      list == ListenersOf(o, ev)
      found == {i \in 1..Len(list) : list[i] = h}
  IN IF found = {} THEN o
     ELSE LET pos == CHOOSE i \in found : \A j \in found : j <= i
              rest == SubSeq(list, 1, pos - 1) \o SubSeq(list, pos + 1, Len(list))
          IN IF rest = <<>>
             THEN WithSubs(o, [e \in DOMAIN subs \ {ev} |-> subs[e]])
             ELSE WithSubs(o, [subs EXCEPT ![ev] = rest])

RemoveAllListeners(o) == WithSubs(o, NoSubs)

(***************************************************************************)
(* Function values.  An arrow function keeps the `this` of the instance    *)
(* that created it.                                                        *)
(***************************************************************************)
\* _emitCreatedFactory / _emitLoadedFactory of instance c
EmitFactory(c, ms) == [t |-> "function", kind |-> "factory", this |-> c, ms |-> ms]

\* the async handler _setListeners subscribes for one declared listener:
\* listener is element idx of the listeners array decl
ListenerHandler(c, listener, ifData, decl, idx) ==
  [t |-> "function", kind |-> "listener", this |-> c, listener |-> listener,
   ifData |-> ifData, decl |-> decl, idx |-> idx]

\* the handler _bubbleUpEvents subscribes on a child
BubbleHandler(c, ev) == [t |-> "function", kind |-> "bubble", this |-> c, event |-> ev]

EmitCreatedField == Private(Name("emitCreatedFactory"))
EmitLoadedField == Private(Name("emitLoadedFactory"))
KeyField == Private(Name("key"))

Milestone(ev) == IF ev = "create" THEN "created" ELSE "loaded"

(***************************************************************************)
(* The synchronous part of an operation is a function on the record S of   *)
(* everything it can change: S.threw is "none" until an exception is       *)
(* raised, after which the remaining statements are skipped.               *)
(***************************************************************************)
Throw(S, error) == IF S.threw = "none" THEN [S EXCEPT !.threw = error] ELSE S

\* history: c emits ev(args) during firing fid (0: not part of a create/load
\* firing); a milestone is counted on the firing it belongs to
Log(S, c, ev, args, fid) ==
  LET S1 == [S EXCEPT !.emitted[c] = Append(@, [ev |-> ev, args |-> args, fid |-> fid])]
  IN IF fid > 0 /\ ev = Milestone(S.firings[fid].ev)
     THEN LET f == S.firings[fid]
          IN IF c = f.this
             THEN [S1 EXCEPT !.firings[fid].ms = @ + 1,
                             !.firings[fid].early = @ \/ f.done < f.listeners]
             ELSE [S1 EXCEPT !.firings[fid].foreign = @ + 1]
     ELSE S1

RECURSIVE emit(_, _, _, _, _)
RECURSIVE callHandlers(_, _, _, _, _)
RECURSIVE _emitChange(_, _, _, _, _)

\* the end of a listener's handler: switch (listener.event)
ChainFinish(S, t) ==
  LET S1 == IF t.fid > 0 THEN [S EXCEPT !.firings[t.fid].done = @ + 1] ELSE S
      factory == Field(S.objs[t.this],
                       IF t.listener.event = "create" THEN EmitCreatedField
                       ELSE EmitLoadedField)
  IN IF t.listener.event \in {"create", "load"}
     THEN \* this._emitCreatedFactory() / this._emitLoadedFactory()
          _emitChange(S1, factory.this, factory.ms, Undefined, t.fid)
     ELSE S1

\* a for loop that hands every action the arguments of the one before it
ChainAdvanceSameArguments(S, t) ==
  IF t.pc < Len(t.listener.actions)
  THEN [S EXCEPT !.tasks = Append(@, [t EXCEPT !.pc = t.pc + 1])]
  ELSE ChainFinish(S, t)

\* the for loop of a listener's handler, entered with t.pc actions done and
\* t.output the last result: it calls the next action's run and suspends at
\* the await, or leaves the loop
ChainAdvance(S, t) ==
  IF t.pc < Len(t.listener.actions)
  THEN [S EXCEPT !.tasks = Append(@, [t EXCEPT !.pc = t.pc + 1,
                                               !.arguments = t.output])]
  ELSE ChainFinish(S, t)

\* an emit that skips a listener's handler while a chain of the same listener
\* is suspended
InvokeExclusive(S, h, args, fid) ==
  IF h.kind = "listener"
     /\ \E i \in 1..Len(S.tasks) :
          S.tasks[i].this = h.this /\ S.tasks[i].listener = h.listener
  THEN S
  ELSE CASE h.kind = "factory" -> _emitChange(S, h.this, h.ms, Undefined, fid)
         [] h.kind = "bubble" ->
              _emitChange(S, h.this, h.event,
                          IF Len(args) >= 1 THEN args[1] ELSE Undefined, fid)
         [] h.kind = "listener" ->
              ChainAdvance(S, [this |-> h.this, listener |-> h.listener,
                               ifData |-> h.ifData, decl |-> h.decl, fid |-> fid,
                               pc |-> 0, arguments |-> Undefined, output |-> Null])

\* one handler called by emit
Invoke(S, h, args, fid) ==
  CASE h.kind = "factory" -> _emitChange(S, h.this, h.ms, Undefined, fid)
    [] h.kind = "bubble" ->
         _emitChange(S, h.this, h.event,
                     IF Len(args) >= 1 THEN args[1] ELSE Undefined, fid)
    [] h.kind = "listener" ->
         ChainAdvance(
           [S EXCEPT !.started =
              Append(@, [this |-> h.this, listener |-> h.listener, decl |-> h.decl,
                         idx |-> h.idx, fid |-> fid,
                         emission |-> Len(S.emitted[h.this]),
                         current |-> Field(S.objs[h.this], Private(Name("listeners"))),
                         key |-> Field(S.objs[h.this], KeyField)])],
           [this |-> h.this, listener |-> h.listener, ifData |-> h.ifData,
            decl |-> h.decl, fid |-> fid, pc |-> 0,
            arguments |-> Undefined, output |-> Null])

callHandlers(S, hs, i, args, fid) ==
  IF i > Len(hs) THEN S
  ELSE callHandlers(Invoke(S, hs[i], args, fid), hs, i + 1, args, fid)

\* EventEmitter.emit: the handlers subscribed when the emission starts are
\* called in subscription order
emit(S, c, ev, args, fid) ==
  callHandlers(Log(S, c, ev, args, fid), ListenersOf(S.objs[c], ev), 1, args, fid)

_emitChange(S, c, name, value, fid) ==
  emit(emit(S, c, name, <<value>>, fid), c, "$change", <<Str(name), value>>, fid)

\* history: a new firing of create / load on c
NewFiring(S, c, ev) ==
  [S EXCEPT !.firings = Append(@,
     [this |-> c, ev |-> ev,
      listeners |-> Cardinality({i \in 1..Len(ListenersOf(S.objs[c], ev)) :
                                   ListenersOf(S.objs[c], ev)[i].kind = "listener"}),
      done |-> 0, ms |-> 0, foreign |-> 0, early |-> FALSE, failed |-> FALSE])]

(***************************************************************************)
(* The property store.                                                     *)
(***************************************************************************)
_get(S, c, name) ==
  LET v == Field(S.objs[c], Private(name)) IN IF v = Undefined THEN Null ELSE v

\* _set without the undefined -> null exemption
_setAnyChange(S, c, name, value) ==
  LET cur == Field(S.objs[c], Private(name))
  IN IF S.threw # "none" THEN S
     ELSE IF cur # value
     THEN _emitChange([S EXCEPT !.objs[c] = WithField(@, Private(name), value)],
                      c, name[1], value, 0)
     ELSE S

_set(S, c, name, value) ==
  LET cur == Field(S.objs[c], Private(name))
  IN IF S.threw # "none" THEN S
     ELSE IF cur # value /\ (cur # Undefined \/ value # Null)
     THEN _emitChange([S EXCEPT !.objs[c] = WithField(@, Private(name), value)],
                      c, name[1], value, 0)
     ELSE S

\* values.push(value) mutates the stored array in place; only a first push
\* allocates an array and stores it
\* _push that starts a new array on every call
_pushReplacing(S, c, name, value) ==
  LET fresh == HeapArr(<<name[1], c, 0>>)
  IN IF S.threw # "none" THEN S
     ELSE _set([S EXCEPT !.heap = (fresh.ref :> <<value>>) @@
                                  [r \in DOMAIN @ \ {fresh.ref} |-> @[r]],
                         !.objs[c] = [f \in DOMAIN @ \ {Private(name)} |-> @[f]]],
               c, name, fresh)

_push(S, c, name, value) ==
  LET values == _get(S, c, name)
      fresh == HeapArr(<<name[1], c, 0>>)
  IN IF S.threw # "none" THEN S
     ELSE IF IsArray(values)
     THEN _set([S EXCEPT !.heap[values.ref] = Append(@, value)], c, name, values)
     ELSE _set([S EXCEPT !.heap = (fresh.ref :> <<value>>) @@ @], c, name, fresh)

_setIfUndefinedProp(S, c, props, name) ==
  IF S.threw # "none" THEN S
  ELSE IF ~CanRead(props) THEN Throw(S, "TypeError")
  ELSE IF Prop(props, name[1]) # Undefined THEN _set(S, c, name, Prop(props, name[1]))
  ELSE S

_setName(S, c, props) == _setIfUndefinedProp(S, c, props, Name("name"))

_setPassed(S, c, props) == _setIfUndefinedProp(S, c, props, Name("passed"))

(***************************************************************************)
(* Listener wiring.                                                        *)
(***************************************************************************)
\* hasOnCreate / hasOnLoad as read at the end of _setListeners: the only
\* assignments of true are inside the async handlers, which run when the
\* event fires, after _setListeners has returned
hasOnAtWiring(listeners, ev) == FALSE

RECURSIVE subscribeAll(_, _, _, _, _)
subscribeAll(o, c, decl, ifData, i) ==
  IF i > Len(decl.items) THEN o
  ELSE subscribeAll(On(o, decl.items[i].event,
                       ListenerHandler(c, decl.items[i], ifData, decl, i)),
                    c, decl, ifData, i + 1)

\* the two removeListener calls that open _setListeners
clearFactories(o) ==
  RemoveListener(RemoveListener(o, "create", Field(o, EmitCreatedField)),
                 "load", Field(o, EmitLoadedField))

\* the two conditional subscriptions that close _setListeners
subscribeFactories(o, listeners) ==
  LET o1 == IF ~hasOnAtWiring(listeners, "create")
            THEN On(o, "create", Field(o, EmitCreatedField)) ELSE o
  IN IF ~hasOnAtWiring(listeners, "load")
     THEN On(o1, "load", Field(o1, EmitLoadedField)) ELSE o1

\* props.listeners.forEach(listener => this.on(listener.event, ...))
subscribeDeclared(S, c, props) ==
  IF S.threw # "none" THEN S
  ELSE IF Prop(props, "listeners").t # "array" THEN Throw(S, "TypeError")
  ELSE [S EXCEPT !.objs[c] = subscribeAll(@, c, Prop(props, "listeners"),
                                          Prop(props, "passed"), 1)]

\* if (props.listeners !== undefined) { ... }
setDeclared(S, c, props) ==
  IF Prop(props, "listeners") # Undefined
  THEN subscribeDeclared(_setIfUndefinedProp(S, c, props, Name("listeners")), c, props)
  ELSE S

\* if (!hasOnCreate) ...; if (!hasOnLoad) ...
setFactories(S, c, props) ==
  IF S.threw # "none" THEN S
  ELSE [S EXCEPT !.objs[c] = subscribeFactories(@, Prop(props, "listeners"))]

_setListeners(S, c, props) ==
  IF S.threw # "none" THEN S
  ELSE setFactories(setDeclared([S EXCEPT !.objs[c] = clearFactories(@)], c, props),
                    c, props)

\* if (props.schema !== undefined) this._push('schema', props.schema)
setSchema(S, c, props) ==
  IF S.threw = "none" /\ Prop(props, "schema") # Undefined
  THEN _push(S, c, Name("schema"), Prop(props, "schema"))
  ELSE S

\* set without the typeof test
setUnchecked(S, c, props) ==
  IF S.threw # "none" THEN S
  ELSE setSchema(_setPassed(_setListeners(_setName(S, c, props), c, props), c, props),
                 c, props)

set(S, c, props) ==
  IF S.threw # "none" THEN S
  ELSE IF TypeOf(props) # "object" THEN Throw(S, "Error: props must be an object")
  ELSE setSchema(_setPassed(_setListeners(_setName(S, c, props), c, props), c, props),
                 c, props)

(***************************************************************************)
(* Reading.                                                                *)
(***************************************************************************)
AllowedNames == {Name("name"), Name("listeners"), Name("passed"), Name("schema")}

_getIfAllowed(S, c, name, allowedNames) ==
  IF name \in allowedNames THEN _get(S, c, name) ELSE Undefined

getOne(S, c, name) == _getIfAllowed(S, c, name, AllowedNames)

\* the mapping built by get: every name visited becomes a key of it
Values(S, c, names) == [t |-> "values", values |-> [n \in names |-> getOne(S, c, n)]]

get(S, c, names) ==
  IF names \in {Undefined, Null}
  THEN \* _.each over the instance's own fields
       Values(S, c, {ReplaceFirstUnderscore(f) : f \in DOMAIN S.objs[c]})
  ELSE IF names.t = "array"
  THEN Values(S, c, {Name(names.items[i]) : i \in 1..Len(names.items)})
  ELSE getOne(S, c, Name(names.s))

getKey(S, c) == Field(S.objs[c], KeyField)

(***************************************************************************)
(* Construction, load, clone.                                              *)
(***************************************************************************)
\* a literal object created by the code of instance c
_getComponentMSONSchema(c) == Obj(<<"base", c, 0>>, "Form")

EmptyProps == Obj(<<"props", 0, 0>>, [k \in {} |-> Undefined])
SchemaProps(schema) == Obj(<<"props", 0, 0>>, [k \in {"schema"} |-> schema])

_create(S, c, props) == set(S, c, SchemaProps(_getComponentMSONSchema(c)))

getNextKey(S) == [value |-> S.nextKey, S |-> [S EXCEPT !.nextKey = @ + 1]]

\* what the instance holds when the constructor body starts: the fields set
\* by EventEmitter's constructor and the two arrow-function class fields
NewInstance(c) ==
  WithField(WithField(EventEmitterInit, EmitCreatedField, EmitFactory(c, "created")),
            EmitLoadedField, EmitFactory(c, "loaded"))

\* if (props) this._setName(props)
constructName(S, c, props) ==
  IF props \notin {Undefined, Null} THEN _setName(S, c, props) ELSE S

\* this._create(...); this.set(...)
constructSet(S, c, props) ==
  set(_create(S, c, IF props = Undefined THEN EmptyProps ELSE props),
      c, IF props = Undefined THEN EmptyProps ELSE props)

\* this._emitChange('create')
constructCreate(S, c) ==
  IF S.threw # "none" THEN S
  ELSE _emitChange(NewFiring(S, c, "create"), c, "create", Undefined,
                   Len(S.firings) + 1)

\* this._key = getNextKey()
constructKey(S, c) ==
  IF S.threw # "none" THEN S
  ELSE [getNextKey(S).S EXCEPT !.objs[c] = WithField(@, KeyField,
                                                      Num(getNextKey(S).value))]

\* a constructor that assigns the key before it emits create
constructorKeyFirst(S, props) ==
  constructCreate(
    constructKey(
      constructSet(
        constructName([S EXCEPT !.objs = Append(@, NewInstance(Len(S.objs) + 1)),
                                !.emitted = Append(@, <<>>)],
                      Len(S.objs) + 1, props),
        Len(S.objs) + 1, props),
      Len(S.objs) + 1),
    Len(S.objs) + 1)

constructor(S, props) ==
  constructKey(
    constructCreate(
      constructSet(
        constructName([S EXCEPT !.objs = Append(@, NewInstance(Len(S.objs) + 1)),
                                !.emitted = Append(@, <<>>)],
                      Len(S.objs) + 1, props),
        Len(S.objs) + 1, props),
      Len(S.objs) + 1),
    Len(S.objs) + 1)

emitLoad(S, c) ==
  _emitChange(NewFiring(S, c, "load"), c, "load", Undefined, Len(S.firings) + 1)

\* _.cloneDeep: objects and arrays are copied into new objects owned by the
\* copy n, primitives and functions are kept as they are
ReOwn(ref, n) == <<ref[1], n, ref[3]>>

\* a copy that keeps the references of the source
cloneShallowValue(v, n) == v

cloneDeepValue(v, n) ==
  IF v.t \in {"object", "array", "heaparray"} THEN [v EXCEPT !.ref = ReOwn(@, n)]
  ELSE v

cloneDeep(S, src) ==
  LET n == Len(S.objs) + 1
      o == S.objs[src]
      arrays == {o[f].ref : f \in {g \in DOMAIN o : o[g].t = "heaparray"}}
      copies == [r \in {ReOwn(a, n) : a \in arrays} |->
                   LET a == CHOOSE a \in arrays : ReOwn(a, n) = r
                   IN [i \in 1..Len(S.heap[a]) |-> cloneDeepValue(S.heap[a][i], n)]]
  IN [S EXCEPT !.objs = Append(@, [f \in DOMAIN o |-> cloneDeepValue(o[f], n)]),
               !.heap = copies @@ @,
               !.emitted = Append(@, <<>>)]

\* clonedComponent.removeAllListeners()
removeAllOfLast(S) == [S EXCEPT !.objs[Len(S.objs)] = RemoveAllListeners(@)]

clone(S, src) == removeAllOfLast(cloneDeep(S, src))

\* a bubbling that subscribes only the first of the events
_bubbleUpFirstEvent(S, parent, child, events) ==
  [S EXCEPT !.objs[child] = On(@, events[1], BubbleHandler(parent, events[1]))]

_bubbleUpEvents(S, parent, child, events) ==
  LET RECURSIVE sub(_, _)
      sub(o, i) == IF i > Len(events) THEN o
                   ELSE sub(On(o, events[i], BubbleHandler(parent, events[i])), i + 1)
  IN [S EXCEPT !.objs[child] = sub(@, 1)]

(***************************************************************************)
(* The state machine.                                                      *)
(***************************************************************************)
NoCall == [op |-> "none", this |-> 0, arg |-> Undefined, result |-> Undefined,
           threw |-> "none"]

\* FormDialog: state = {open: false}, mounted here without props
DialogInit ==
  [state |-> [open |-> FALSE],
   props |-> [mode |-> Undefined, open |-> Undefined, onClose |-> Undefined],
   onCloseCalls |-> 0]

Init ==
  /\ dialog = DialogInit
  /\ objs = <<>>
  /\ heap = [r \in {} |-> <<>>]
  /\ nextKey = 0
  /\ tasks = <<>>
  /\ firings = <<>>
  /\ emitted = <<>>
  /\ started = <<>>
  /\ call = NoCall

\* the state an operation starts from; the per-step histories start empty
Begin ==
  [objs |-> objs, heap |-> heap, nextKey |-> nextKey, tasks |-> tasks,
   firings |-> firings, emitted |-> [i \in 1..Len(objs) |-> <<>>],
   started |-> <<>>, threw |-> "none"]

Commit(S, op, this, arg, result) ==
  /\ objs' = S.objs
  /\ heap' = S.heap
  /\ nextKey' = S.nextKey
  /\ tasks' = S.tasks
  /\ firings' = S.firings
  /\ emitted' = S.emitted
  /\ started' = S.started
  /\ call' = [op |-> op, this |-> this, arg |-> arg, result |-> result,
              threw |-> S.threw]
  /\ dialog' = dialog

Comps == 1..Len(objs)

HandlerCount(o) ==
  LET subs == o[EventsField].subs
  IN Cardinality(UNION {{<<e, i>> : i \in {j \in 1..Len(subs[e]) :
                                             subs[e][j].kind = "listener"}} :
                        e \in DOMAIN subs})

Declared(props) ==
  IF Prop(props, "listeners").t = "array" THEN Len(Prop(props, "listeners").items) ELSE 0

SchemaLen(c) ==
  IF Field(objs[c], Private(Name("schema"))).t = "heaparray"
  THEN Len(heap[Field(objs[c], Private(Name("schema"))).ref]) ELSE 0

\* new Component(props); a constructor that throws yields no instance
Construct(props) ==
  /\ Len(objs) < MaxComps
  /\ Len(firings) < MaxFirings
  /\ Declared(props) <= MaxHandlers
  /\ \E S \in {constructor(Begin, props)} :
       /\ Len(S.tasks) <= MaxTasks
       /\ IF S.threw = "none"
          THEN Commit(S, "new", Len(S.objs), props, Undefined)
          ELSE Commit([Begin EXCEPT !.threw = S.threw], "new", 0, props, Undefined)

Set(c, props) ==
  /\ HandlerCount(objs[c]) + Declared(props) <= MaxHandlers
  /\ Prop(props, "schema") # Undefined => SchemaLen(c) < MaxSchemaLen
  /\ \E S \in {set(Begin, c, props)} :
       /\ Len(S.tasks) <= MaxTasks
       /\ Commit(S, "set", c, props, Undefined)

Get(c, names) == Commit(Begin, "get", c, names, get(Begin, c, names))

GetKey(c) == Commit(Begin, "getKey", c, Undefined, getKey(Begin, c))

EmitLoad(c) ==
  /\ Len(firings) < MaxFirings
  /\ \E S \in {emitLoad(Begin, c)} :
       /\ Len(S.tasks) <= MaxTasks
       /\ Commit(S, "emitLoad", c, Undefined, Undefined)

Clone(c) ==
  /\ Len(objs) < MaxComps
  /\ Commit(clone(Begin, c), "clone", c, Undefined, Num(Len(objs) + 1))

BubbleCount(o) ==
  LET subs == o[EventsField].subs
  IN Cardinality(UNION {{<<e, i>> : i \in {j \in 1..Len(subs[e]) :
                                             subs[e][j].kind = "bubble"}} :
                        e \in DOMAIN subs})

\* parent._bubbleUpEvents(child, events), as a derived component calls it on
\* a component it owns; registrations in a cycle would re-emit without end,
\* so a component that is already bubbled from owns no child
Bubble(parent, child, events) ==
  /\ parent # child
  /\ BubbleCount(objs[parent]) = 0
  /\ BubbleCount(objs[child]) + Len(events) <= MaxBubbles
  /\ Commit(_bubbleUpEvents(Begin, parent, child, events), "bubble", parent,
            Arr(<<"lit", 0, 13>>, events), Num(child))

\* the promise awaited by the chain tasks[i] is fulfilled with result
Resolve(i, result) ==
  LET t == tasks[i]
      S == [Begin EXCEPT !.tasks = SubSeq(tasks, 1, i - 1) \o SubSeq(tasks, i + 1, Len(tasks))]
  IN Commit(ChainAdvance(S, [t EXCEPT !.output = result]),
            "resolve", t.this, Str(t.listener.actions[t.pc]), result)

\* the promise awaited by the chain tasks[i] is rejected: the async handler's
\* own promise is rejected, and nobody holds it
Reject(i) ==
  LET t == tasks[i]
      S == [Begin EXCEPT !.tasks = SubSeq(tasks, 1, i - 1) \o SubSeq(tasks, i + 1, Len(tasks))]
  IN Commit(IF t.fid > 0 THEN [S EXCEPT !.firings[t.fid].failed = TRUE] ELSE S,
            "reject", t.this, Str(t.listener.actions[t.pc]), Undefined)

(***************************************************************************)
(* FormDialog.  A handler runs to completion and React applies its         *)
(* setState before anything else happens, so each handler is one step.     *)
(***************************************************************************)
\* JavaScript truthiness of the values used here
Truthy(v) == v \notin {Undefined, Null, Bool(FALSE)}

\* a function passed as a prop
Callback(name) == [t |-> "function", kind |-> "prop", name |-> name]

\* handleClose without the guard on mode
handleCloseAlways(d, withCancelButton) ==
  LET closed == [d EXCEPT !.state.open = FALSE]
  IN IF Truthy(d.props.onClose) THEN [closed EXCEPT !.onCloseCalls = @ + 1] ELSE closed

handleClose(d, withCancelButton) ==
  IF Truthy(withCancelButton) \/ d.props.mode # Str("edit")
  THEN LET closed == [d EXCEPT !.state.open = FALSE]
       IN IF Truthy(d.props.onClose) THEN [closed EXCEPT !.onCloseCalls = @ + 1]
          ELSE closed
  ELSE d

handleClickOpen(d) == [d EXCEPT !.state.open = TRUE]

componentDidUpdate(d, prevProps) ==
  IF prevProps.open # d.props.open
  THEN [d EXCEPT !.state.open = Truthy(d.props.open)]
  ELSE d

\* render: the Cancel button is part of the dialog in modes edit and new
CancelButtonShown(d) == d.props.mode \in {Str("edit"), Str("new")}

DialogStep(d, op, arg) ==
  /\ dialog' = d
  /\ call' = [op |-> op, this |-> 0, arg |-> arg, result |-> Undefined,
              threw |-> "none"]
  /\ UNCHANGED <<objs, heap, nextKey, tasks, firings, emitted, started>>

\* Esc or a click outside the open dialog: Dialog's onClose
DialogOnClose ==
  /\ dialog.state.open
  /\ dialog.onCloseCalls < MaxCloses
  /\ DialogStep(handleClose(dialog, Bool(FALSE)), "handleClose", Bool(FALSE))

\* a click on the Cancel button of the open dialog
CancelOnClick ==
  /\ dialog.state.open
  /\ CancelButtonShown(dialog)
  /\ dialog.onCloseCalls < MaxCloses
  /\ DialogStep(handleClose(dialog, Bool(TRUE)), "handleClose", Bool(TRUE))

\* handleClickOpen, called by whoever holds the dialog
ClickOpen ==
  \E d \in {handleClickOpen(dialog)} : DialogStep(d, "handleClickOpen", Undefined)

\* the owner renders the dialog with new props
Update(props) ==
  /\ props # dialog.props
  /\ DialogStep(componentDidUpdate([dialog EXCEPT !.props = props], dialog.props),
                "componentDidUpdate", Undefined)

(***************************************************************************)
(* Inputs.                                                                 *)
(***************************************************************************)
Props(fields) == Obj(<<"props", 0, 0>>, fields)

NameA == Str("a")
NameB == Str("b")
\* two distinct objects with equal content
PassedX1 == Obj(<<"lit", 0, 1>>, "x")
PassedX2 == Obj(<<"lit", 0, 2>>, "x")
FragmentA == Obj(<<"lit", 0, 3>>, "TextField")
FragmentB == Obj(<<"lit", 0, 4>>, "SelectField")
Listener(ev, actions) == [event |-> ev, actions |-> actions]
OnCreate2 == Arr(<<"lit", 0, 5>>, <<Listener("create", <<"a1", "a2">>),
                                    Listener("create", <<"a3">>)>>)
OnLoad2 == Arr(<<"lit", 0, 6>>, <<Listener("load", <<"a1", "a2">>),
                                  Listener("load", <<"a3">>)>>)
OnLoad1 == Arr(<<"lit", 0, 7>>, <<Listener("load", <<"a1", "a2">>)>>)
OnName == Arr(<<"lit", 0, 8>>, <<Listener("name", <<"a1">>)>>)
\* a listener without actions: its handler runs to its end when called
OnNameNoAction == Arr(<<"lit", 0, 11>>, <<Listener("name", <<>>)>>)
OnLoadNoAction == Arr(<<"lit", 0, 12>>, <<Listener("load", <<>>)>>)
Results == {Str("r1"), Str("r2")}

NonMappings == {Undefined, Str("s"), Num(7), Bool(TRUE), Null, Arr(<<"lit", 0, 9>>, <<>>)}

GetArgs == {Undefined, Str("schema"), Arr(<<"lit", 0, 10>>, <<"name", "foo">>)}

(***************************************************************************)
(* The property store of one component: every recognized property, null,   *)
(* an unrecognized name, and arguments that are no mapping.                *)
(***************************************************************************)
StoreMappings ==
  {EmptyProps, Props([foo |-> Num(1)])}
  \cup {Props([name |-> v]) : v \in {NameA, NameB, Null}}
  \cup {Props([passed |-> v]) : v \in {PassedX1, PassedX2, Null}}
  \cup {Props([listeners |-> v]) : v \in {OnNameNoAction, Null}}
  \cup {Props([schema |-> v]) : v \in {FragmentA, FragmentB}}
  \cup {Props([name |-> NameB, passed |-> PassedX1, listeners |-> OnNameNoAction]),
        Props([listeners |-> Null, passed |-> PassedX2]),
        Props([name |-> NameA, schema |-> FragmentA])}

StoreNext ==
  \/ \E props \in {Undefined} \cup StoreMappings : objs = <<>> /\ Construct(props)
  \/ \E c \in Comps, props \in NonMappings \cup StoreMappings : Set(c, props)
  \/ \E c \in Comps, names \in GetArgs : Get(c, names)

SpecStore == Init /\ [][StoreNext]_vars

(***************************************************************************)
(* Listener wiring of one component: listeners on create, load and name,   *)
(* supplied to the constructor and replaced by later set calls, with the   *)
(* action chains they start.                                               *)
(***************************************************************************)
WiringCtorInputs ==
  {Undefined, Props([listeners |-> OnCreate2]), Props([listeners |-> OnLoad1]),
   Props([name |-> NameA, schema |-> FragmentA, listeners |-> OnCreate2])}

WiringSetInputs ==
  {EmptyProps, Props([name |-> NameA])}
  \cup {Props([listeners |-> v]) : v \in {OnLoad2, OnLoad1, OnName}}

WiringNext ==
  \/ \E props \in WiringCtorInputs : objs = <<>> /\ Construct(props)
  \/ \E c \in Comps, props \in WiringSetInputs : Set(c, props)
  \/ \E c \in Comps : EmitLoad(c)
  \/ \E i \in 1..Len(tasks), r \in Results : Resolve(i, r)
  \/ \E i \in 1..Len(tasks) : Reject(i)

SpecWiring == Init /\ [][WiringNext]_vars

(***************************************************************************)
(* Several components: constructed, cloned, set, loaded and read.          *)
(***************************************************************************)
CloneCtorInputs ==
  {Undefined, Props([name |-> NameA, passed |-> PassedX1, listeners |-> OnLoadNoAction])}

CloneSetInputs == {EmptyProps, Props([schema |-> FragmentA])}

CloneNext ==
  \/ \E props \in CloneCtorInputs : Len(firings) < MaxCloneFirings /\ Construct(props)
  \/ \E c \in Comps, props \in CloneSetInputs : Set(c, props)
  \/ \E c \in Comps : GetKey(c)
  \/ \E c \in Comps : Len(firings) < MaxCloneFirings /\ EmitLoad(c)
  \/ \E c \in Comps : Clone(c)

SpecClone == Init /\ [][CloneNext]_vars

(***************************************************************************)
(* A parent that bubbles events of a child: both are constructed bare, the  *)
(* child is named and loaded.                                              *)
(***************************************************************************)
BubbleEvents == {<<"name">>, <<"load", "loaded">>, <<"$change">>}

BubbleSetInputs == {Props([name |-> NameA])}

BubbleNext ==
  \/ Construct(Undefined)
  \/ \E c \in Comps, props \in BubbleSetInputs : Set(c, props)
  \/ \E c \in Comps : EmitLoad(c)
  \/ \E parent, child \in Comps, events \in BubbleEvents : Bubble(parent, child, events)

SpecBubble == Init /\ [][BubbleNext]_vars

(***************************************************************************)
(* A FormDialog that its owner opens, re-renders and closes.               *)
(***************************************************************************)
Modes == {Undefined, Str("edit"), Str("new"), Str("read")}

DialogProps ==
  [mode : Modes, open : {Undefined, Bool(TRUE), Bool(FALSE)},
   onClose : {Undefined, Callback("onClose")}]

DialogNext ==
  \/ DialogOnClose
  \/ CancelOnClick
  \/ ClickOpen
  \/ \E props \in DialogProps : Update(props)

SpecDialog == Init /\ [][DialogNext]_vars

(***************************************************************************)
(* Properties of the property store.                                       *)
(***************************************************************************)
\* the events named ev that c emitted in the last step
EmittedCount(log, ev) == Cardinality({i \in 1..Len(log) : log[i].ev = ev})

\* the generic events about property name that c emitted in the last step
ChangeCount(log, name) ==
  Cardinality({i \in 1..Len(log) : log[i].ev = "$change" /\ log[i].args[1] = Str(name)})

\* set reaches _setName and _setListeners whenever props can be read, and
\* _setPassed when _setListeners has not thrown
Written(name, threw) == name = "passed" => threw = "none"

\* C1: for name, passed and listeners written by set through _set: a value
\* identical to the stored one, or null over a property never set, stores
\* nothing and emits nothing; any other value (null over a defined non-null
\* value included) is stored and emitted once, specifically and generically.
C1_NoOpRule ==
  [][(call'.op = "set" /\ TypeOf(call'.arg) = "object" /\ CanRead(call'.arg)) =>
       \A name \in {"name", "passed", "listeners"} :
         LET c == call'.this
             value == Prop(call'.arg, name)
             old == Field(objs[c], Private(Name(name)))
             new == Field(objs'[c], Private(Name(name)))
         IN (value # Undefined /\ Written(name, call'.threw)) =>
              IF value = old \/ (old = Undefined /\ value = Null)
              THEN /\ new = old
                   /\ EmittedCount(emitted'[c], name) = 0
                   /\ ChangeCount(emitted'[c], name) = 0
              ELSE /\ new = value
                   /\ EmittedCount(emitted'[c], name) = 1
                   /\ ChangeCount(emitted'[c], name) = 1]_vars

\* a set call has replaced a defined non-null passed by null, and emitted it
C1_Witness ==
  /\ call.op = "set"
  /\ Prop(call.arg, "passed") = Null
  /\ \E i \in 1..Len(emitted[call.this]) :
       emitted[call.this][i] = [ev |-> "passed", args |-> <<Null>>, fid |-> 0]

\* get('schema') of component c as a sequence of fragments
SchemaOf(os, hp, c) ==
  LET v == get([objs |-> os], c, Str("schema"))
  IN IF v.t = "heaparray" THEN hp[v.ref] ELSE <<>>

\* C4: the constructor leaves [base default] followed by the fragment it was
\* given, a set call that supplies schema and returns appends exactly that
\* fragment, and no other step changes the sequence of any component.
C4_SchemaAppendOnly ==
  [][\A c \in 1..Len(objs') :
       LET new == SchemaOf(objs', heap', c)
           supplied == Prop(call'.arg, "schema")
       IN IF c > Len(objs)
          THEN call'.op = "new" =>
                 new = <<_getComponentMSONSchema(c)>>
                       \o (IF supplied # Undefined THEN <<supplied>> ELSE <<>>)
          ELSE IF call'.op = "set" /\ call'.this = c /\ call'.threw = "none"
                  /\ supplied # Undefined
          THEN new = Append(SchemaOf(objs, heap, c), supplied)
          ELSE new = SchemaOf(objs, heap, c)]_vars

\* constructed with schema A, then set({schema: B})
C4_Witness ==
  /\ call.op = "set"
  /\ Prop(call.arg, "schema") = FragmentB
  /\ SchemaOf(objs, heap, call.this)
       = <<_getComponentMSONSchema(call.this), FragmentA, FragmentB>>

\* C6: the mapping returned by get() has no key outside name, listeners,
\* passed and schema.
C6_AllowListKeys ==
  (call.op = "get" /\ call.arg = Undefined) =>
    DOMAIN call.result.values \subseteq AllowedNames

\* C8 as claimed: set with any argument that is no keyed mapping, an array
\* included, throws and changes nothing.
C8_NonMappingThrows ==
  [][(call'.op = "set" /\ call'.arg \in NonMappings) =>
       /\ call'.threw # "none"
       /\ objs' = objs /\ heap' = heap /\ tasks' = tasks
       /\ emitted'[call'.this] = <<>>]_vars

\* C8 as amended: set with undefined, a string, a number, a boolean or null
\* throws, and objects, arrays, suspended chains and emitted events are as
\* they were.
C8_NonObjectThrows ==
  [][(call'.op = "set" /\ call'.arg \in NonMappings /\ call'.arg.t # "array") =>
       /\ call'.threw # "none"
       /\ objs' = objs /\ heap' = heap /\ tasks' = tasks
       /\ emitted'[call'.this] = <<>>]_vars

\* set(null) has thrown on a component that holds properties and handlers
C8_Witness ==
  /\ call.op = "set" /\ call.arg = Null /\ call.threw = "TypeError"
  /\ Field(objs[call.this], Private(Name("name"))) = NameB
  /\ HandlerCount(objs[call.this]) > 0

(***************************************************************************)
(* Properties of listener wiring and milestones.                           *)
(***************************************************************************)
\* C2: when the component has two (or more) listeners on create (load), no
\* created (loaded) is emitted for a firing while a chain of that firing has
\* not run to its end.
C2_MilestoneAfterChains ==
  \A f \in 1..Len(firings) : firings[f].listeners >= 2 => ~firings[f].early

\* C10: a firing of create (load) in which an action has rejected has emitted
\* no created (loaded).
C10_FailureSuppressesMilestone ==
  \A f \in 1..Len(firings) : firings[f].failed => firings[f].ms = 0

\* every chain run by the last step was declared by the listeners the
\* component held when the chain's event was emitted
OnlyCurrentDeclarationsRun ==
  \A i \in 1..Len(started) : started[i].decl = started[i].current

\* no declared chain was run twice for one emission
NoChainRunsTwice ==
  \A i, j \in 1..Len(started) :
    (/\ started[j].this = started[i].this
     /\ started[j].emission = started[i].emission
     /\ started[j].decl = started[i].decl
     /\ started[j].idx = started[i].idx) => j = i

\* C9: a firing runs only the chains declared by the listeners the component
\* holds, each exactly once: no chain of a replaced declaration runs again.
C9_OnlyCurrentListenersRun == OnlyCurrentDeclarationsRun /\ NoChainRunsTwice

(***************************************************************************)
(* Properties of identity and cloning.                                     *)
(***************************************************************************)
\* no handler subscribed on ev of c was declared by a listener, and the
\* listeners c holds declare none on ev
NoListenerOn(c, ev) ==
  /\ \A i \in 1..Len(ListenersOf(objs[c], ev)) :
       ListenersOf(objs[c], ev)[i].kind # "listener"
  /\ LET l == Field(objs[c], Private(Name("listeners")))
     IN l.t = "array" => \A i \in 1..Len(l.items) : l.items[i].event # ev

\* a set call on c has subscribed c's own milestone emitter on ev
FactorySubscribed(c, ev) ==
  \E i \in 1..Len(ListenersOf(objs[c], ev)) :
    ListenersOf(objs[c], ev)[i] =
      Field(objs[c], IF ev = "create" THEN EmitCreatedField ELSE EmitLoadedField)

\* c emitted ev and, later in the same step, its milestone
MilestoneInStep(c, ev) ==
  \E i, j \in 1..Len(emitted[c]) :
    i < j /\ emitted[c][i].ev = ev /\ emitted[c][j].ev = Milestone(ev)

\* C3: on a component with no listener on create (load) that set has wired,
\* the constructor's create emits created, and every emitLoad() emits
\* loaded, on that component before the call returns.
C3_DefaultMilestone ==
  /\ (call.op = "new" /\ call.threw = "none" /\ NoListenerOn(call.this, "create"))
       => MilestoneInStep(call.this, "create")
  /\ (call.op = "emitLoad" /\ NoListenerOn(call.this, "load")
        /\ FactorySubscribed(call.this, "load"))
       => MilestoneInStep(call.this, "load")

\* C5: a key, once assigned, never changes, and no two instances have the
\* same key.
C5_KeyStableUnique ==
  [][/\ \A c \in 1..Len(objs) :
          getKey([objs |-> objs], c) # Undefined =>
            getKey([objs |-> objs'], c) = getKey([objs |-> objs], c)
     /\ \A c1, c2 \in 1..Len(objs') :
          (c1 # c2 /\ getKey([objs |-> objs'], c1) # Undefined) =>
            getKey([objs |-> objs'], c1) # getKey([objs |-> objs'], c2)]_vars

\* the content of a value, whatever object holds it
RECURSIVE Content(_, _)
Content(v, hp) ==
  IF v.t = "object" THEN [t |-> "object", data |-> v.data]
  ELSE IF v.t = "array" THEN [t |-> "array", items |-> v.items]
  ELSE IF v.t = "heaparray"
  THEN [t |-> "array", items |-> [i \in 1..Len(hp[v.ref]) |-> Content(hp[v.ref][i], hp)]]
  ELSE v

\* what get returns for the four properties of c, by content
View(os, hp, c) ==
  [name \in AllowedNames |-> Content(getOne([objs |-> os], c, name), hp)]

\* the objects reachable from c's properties
Refs(os, hp, c) ==
  LET vs == {getOne([objs |-> os], c, name) : name \in AllowedNames}
      top == {v.ref : v \in {w \in vs : w.t \in {"object", "array", "heaparray"}}}
      arrays == {v.ref : v \in {w \in vs : w.t = "heaparray"}}
  IN top \cup UNION {{hp[a][i].ref : i \in 1..Len(hp[a])} : a \in arrays}

\* C7: clone() leaves the source as it was and yields a component whose four
\* properties equal the source's, held in objects of its own, with no
\* subscriber on any event; and an operation on one component never changes
\* what get returns on another.
C7_CloneByValue ==
  [][/\ call'.op = "clone" =>
          /\ View(objs', heap', Len(objs')) = View(objs, heap, call'.this)
          /\ Refs(objs', heap', Len(objs')) \cap Refs(objs', heap', call'.this) = {}
          /\ objs'[Len(objs')][EventsField].subs = NoSubs
          /\ objs'[call'.this] = objs[call'.this]
     /\ \A c \in 1..Len(objs) :
          call'.this # c => View(objs', heap', c) = View(objs, heap, c)]_vars

\* a fragment has been appended to a clone's schema and not to its source's
C7_Witness ==
  /\ call.op = "set"
  /\ Prop(call.arg, "schema") = FragmentA
  /\ \E src \in Comps :
       /\ src # call.this
       /\ Field(objs[call.this], EmitLoadedField) = EmitFactory(src, "loaded")
       /\ Len(SchemaOf(objs, heap, call.this)) = Len(SchemaOf(objs, heap, src)) + 1
       /\ Field(objs[src], Private(Name("passed"))) = PassedX1

(***************************************************************************)
(* Properties of action chains.                                            *)
(***************************************************************************)
\* the suspended chain that the step settles
SettledTask ==
  CHOOSE i \in 1..Len(tasks) :
    tasks' = SubSeq(tasks, 1, i - 1) \o SubSeq(tasks, i + 1, Len(tasks))
             \o SubSeq(tasks', Len(tasks), Len(tasks'))

\* the chain t was started by the last step, and awaits its first action
StartedByLastStep(t) ==
  /\ t.pc = 1
  /\ \E j \in 1..Len(started) :
       /\ started[j].this = t.this /\ started[j].fid = t.fid
       /\ started[j].listener = t.listener /\ started[j].decl = t.decl

\* C11: when an action rejects, the operation that fired the event has not
\* returned normally: here the operation is the last step, and the action is
\* the first of a chain that step started.
C11_FailureSurfacesToTrigger ==
  [][(/\ call'.op = "reject"
      /\ call.op \in {"new", "set", "emitLoad"}
      /\ StartedByLastStep(tasks[SettledTask]))
       => call.threw # "none"]_vars

\* the suspended chains other than the one the step settles
OtherTasks == SubSeq(tasks, 1, SettledTask - 1) \o SubSeq(tasks, SettledTask + 1, Len(tasks))

\* C12: a chain starts with its first action, given arguments = null; when
\* action i resolves the chain starts action i + 1 with exactly that result
\* as arguments, or ends after the last action; when an action rejects the
\* chain starts no further action; and no step starts any other action or
\* touches another suspended chain.
C12_FoldPipe ==
  [][/\ \A i \in 1..Len(tasks') : tasks'[i].pc = 1 => tasks'[i].arguments = Null
     /\ call'.op = "resolve" =>
          LET t == tasks[SettledTask]
          IN /\ t.this = call'.this /\ t.listener.actions[t.pc] = call'.arg.s
             /\ tasks' = IF t.pc < Len(t.listener.actions)
                         THEN Append(OtherTasks,
                                     [t EXCEPT !.pc = t.pc + 1,
                                               !.arguments = call'.result,
                                               !.output = call'.result])
                         ELSE OtherTasks
     /\ call'.op = "reject" => tasks' = OtherTasks
     /\ call'.op \notin {"resolve", "reject"} =>
          /\ SubSeq(tasks', 1, Len(tasks)) = tasks
          /\ \A i \in Len(tasks) + 1..Len(tasks') : tasks'[i].pc = 1]_vars

\* the chains of two firings of one listener are suspended at their second
\* action, each holding the result of its own first action
C12_Witness ==
  /\ call.op = "resolve"
  /\ \E i, j \in 1..Len(tasks) :
       /\ tasks[i].listener = tasks[j].listener /\ tasks[i].this = tasks[j].this
       /\ tasks[i].fid # tasks[j].fid
       /\ tasks[i].pc = 2 /\ tasks[i].arguments = Str("r1")
       /\ tasks[j].pc = 2 /\ tasks[j].arguments = Str("r2")

(***************************************************************************)
(* Properties of emission.                                                 *)
(***************************************************************************)
\* what component c stores for a property, a schema being its fragments
StoredValue(os, hp, c, name) ==
  IF name = "schema" THEN SchemaOf(os, hp, c)
  ELSE Field(os[c], Private(Name(name)))

\* log holds exactly one event named name, immediately followed by the only
\* $change about name, both carrying value
DualEmission(log, name, value) ==
  /\ EmittedCount(log, name) = 1
  /\ ChangeCount(log, name) = 1
  /\ \E i \in 1..Len(log) - 1 :
       /\ log[i].ev = name /\ log[i].args = <<value>>
       /\ log[i + 1].ev = "$change" /\ log[i + 1].args = <<Str(name), value>>

\* C13: a set call that returns and changes what the component stores for
\* name, passed, listeners or schema (a fragment appended to a non-empty
\* schema included) emits the property's event once, immediately followed by
\* one $change with the property's name and new value.
C13_DualEmission ==
  [][(call'.op = "set" /\ call'.threw = "none") =>
       \A name \in {"name", "passed", "listeners", "schema"} :
         LET c == call'.this
         IN (/\ Prop(call'.arg, name) # Undefined
             /\ StoredValue(objs', heap', c, name) # StoredValue(objs, heap, c, name))
              => DualEmission(emitted'[c], name, Field(objs'[c], Private(Name(name))))]_vars

(***************************************************************************)
(* Properties of bubbling.                                                 *)
(***************************************************************************)
\* the events of child that parent has asked to re-emit
BubbledBy(os, parent, child) ==
  {e \in DOMAIN os[child][EventsField].subs :
     \E i \in 1..Len(ListenersOf(os[child], e)) :
       ListenersOf(os[child], e)[i] = BubbleHandler(parent, e)}

\* no event of child was registered twice by parent
RegisteredOnce(os, parent, child) ==
  \A e \in DOMAIN os[child][EventsField].subs :
    Cardinality({i \in 1..Len(ListenersOf(os[child], e)) :
                   ListenersOf(os[child], e)[i] = BubbleHandler(parent, e)}) <= 1

\* the entries of log that announce event e carrying args
Occurrences(log, e, args) ==
  {i \in 1..Len(log) : log[i].ev = e /\ log[i].args = args}

\* the emissions of e(args) that the parent's own default emitters add when
\* a bubbled create (load) is re-emitted on the parent
OwnMilestones(childLog, parent, events, e, args) ==
  LET base == IF e = "created" THEN "create" ELSE "load"
  IN IF e \in {"created", "loaded"} /\ args = <<Undefined>> /\ base \in events
     THEN EmittedCount(childLog, base)
          * Cardinality({i \in 1..Len(ListenersOf(parent, base)) :
                           ListenersOf(parent, base)[i] = EmitFactory(ListenersOf(parent, base)[i].this, e)})
     ELSE 0

\* how often the parent is to emit e(args)
Expected(childLog, parent, events, e, args) ==
  (IF e \in events THEN Cardinality(Occurrences(childLog, e, args)) ELSE 0)
  + OwnMilestones(childLog, parent, events, e, args)

\* parentLog holds e(args) once for each entry e(args) of childLog with e in
\* events (and once more for each milestone of the parent's own), each
\* followed by its $change(e, args), and nothing else
Relayed(childLog, parentLog, events, parent) ==
  /\ \A i \in 1..Len(parentLog) :
       LET e == parentLog[i].ev
           args == parentLog[i].args
       IN IF e # "$change"
          THEN /\ Cardinality(Occurrences(parentLog, e, args))
                    = Expected(childLog, parent, events, e, args)
               /\ \E j \in i + 1..Len(parentLog) :
                    parentLog[j].ev = "$change" /\ parentLog[j].args = <<Str(e)>> \o args
               /\ Cardinality(Occurrences(parentLog, "$change", <<Str(e)>> \o args))
                    = Cardinality(Occurrences(parentLog, e, args))
          ELSE \E k \in 1..i - 1 :
                 parentLog[k].ev # "$change"
                 /\ args = <<Str(parentLog[k].ev)>> \o parentLog[k].args
  /\ \A j \in 1..Len(childLog) :
       childLog[j].ev \in events =>
         Cardinality(Occurrences(parentLog, childLog[j].ev, childLog[j].args))
           = Expected(childLog, parent, events, childLog[j].ev, childLog[j].args)

\* parent._bubbleUpEvents(child, events) subscribes one handler per event
\* on the child, in order, and emits nothing
Registered ==
  LET parent == call'.this
      child == call'.result.n
      events == call'.arg.items
  IN /\ \A c \in 1..Len(objs) : c # child => objs'[c] = objs[c]
     /\ \A c \in 1..Len(objs) : emitted'[c] = <<>>
     /\ \A e \in DOMAIN objs'[child][EventsField].subs :
          ListenersOf(objs'[child], e) =
            ListenersOf(objs[child], e)
            \o [i \in 1..Cardinality({k \in 1..Len(events) : events[k] = e}) |->
                  BubbleHandler(parent, e)]
     /\ \A k \in 1..Len(events) : events[k] \in DOMAIN objs'[child][EventsField].subs

\* the components that p re-emits events of
Children(os, p) == {c \in 1..Len(os) : c # p /\ BubbledBy(os, p, c) # {}}

\* p, which bubbles the events of at most one child, each registered once,
\* has emitted in the step what that child's emissions call for, and nothing
\* when it has no child
RelayedTo(p) ==
  IF Children(objs, p) = {} THEN emitted'[p] = <<>>
  ELSE \A c \in Children(objs, p) :
         Relayed(emitted'[c], emitted'[p], BubbledBy(objs, p, c), objs[p])

SingleChild(p) ==
  /\ Cardinality(Children(objs, p)) <= 1
  /\ \A c \in Children(objs, p) : RegisteredOnce(objs, p, c)

\* C14 as claimed: after parent._bubbleUpEvents(child, E), whatever E holds,
\* every emission e(value) of the child with e in E makes the parent emit
\* e(value) and then $change(e, value), once; the parent emits nothing for
\* other events of the child, and the child nothing for events of the parent.
C14_BubblingAnyEvent ==
  [][/\ call'.op = "bubble" => Registered
     /\ call'.op \in {"set", "emitLoad"} =>
          \A p \in 1..Len(objs) :
            (p # call'.this /\ SingleChild(p)) => RelayedTo(p)]_vars

\* C14 as amended: the same, for a parent that has not asked for $change and
\* counting what the parent's own default emitters add to a re-emitted load.
C14_Bubbling ==
  [][/\ call'.op = "bubble" => Registered
     /\ call'.op \in {"set", "emitLoad"} =>
          \A p \in 1..Len(objs) :
            (/\ p # call'.this
             /\ SingleChild(p)
             /\ \A c \in Children(objs, p) : "$change" \notin BubbledBy(objs, p, c))
              => RelayedTo(p)]_vars

\* the child has emitted load and loaded, and the parent has re-emitted both
\* and added its own loaded
C14_Witness ==
  /\ call.op = "emitLoad"
  /\ \E p \in Comps :
       /\ p # call.this
       /\ BubbledBy(objs, p, call.this) = {"load", "loaded"}
       /\ EmittedCount(emitted[p], "load") = 1
       /\ ChangeCount(emitted[p], "load") = 1
       /\ EmittedCount(emitted[p], "loaded") = 2

(***************************************************************************)
(* Properties of the default emitters and of construction.                 *)
(***************************************************************************)
\* the listeners c holds declare one on ev
DeclaresOn(c, ev) ==
  LET l == Field(objs[c], Private(Name("listeners")))
  IN l.t = "array" /\ \E i \in 1..Len(l.items) : l.items[i].event = ev

\* C15: the default emitter of created (loaded) is not subscribed on a
\* component whose listeners declare create (load); and a firing that one
\* declared listener handles has emitted its milestone once when the chain has
\* run to its end, and not at all before.
C15_NoDuplicateMilestone ==
  /\ \A c \in Comps, ev \in {"create", "load"} :
       DeclaresOn(c, ev) => ~FactorySubscribed(c, ev)
  /\ \A f \in 1..Len(firings) :
       (firings[f].listeners = 1 /\ ~firings[f].failed) =>
         /\ firings[f].ms = firings[f].done
         /\ ~firings[f].early

\* every entry of log named by an event of before precedes every entry named
\* by an event of after
Precede(log, before, after) ==
  \A i, j \in 1..Len(log) :
    (log[i].ev \in before /\ log[j].ev \in after) => i < j

\* C16: a constructor that returns has emitted name (when given one) before
\* it emitted schema and listeners for the base fragment and the supplied
\* properties, and those before create; it holds the supplied properties;
\* every listener on create it was given was called for that create, and saw
\* no key; and the key is assigned when the constructor returns.
C16_ConstructionOrder ==
  (call.op = "new" /\ call.threw = "none") =>
    LET c == call.this
        given == Prop(call.arg, "listeners")
    IN /\ Precede(emitted[c], {"name"}, {"schema", "listeners", "passed"})
       /\ Precede(emitted[c], {"name", "schema", "listeners", "passed"}, {"create"})
       /\ EmittedCount(emitted[c], "create") = 1
       /\ Prop(call.arg, "name") \notin {Undefined, Null} =>
            /\ Field(objs[c], Private(Name("name"))) = Prop(call.arg, "name")
            /\ emitted[c][1].ev = "name"
       /\ SchemaOf(objs, heap, c) =
            <<_getComponentMSONSchema(c)>>
            \o (IF Prop(call.arg, "schema") # Undefined
                THEN <<Prop(call.arg, "schema")>> ELSE <<>>)
       /\ given.t = "array" =>
            \A i \in 1..Len(given.items) :
              given.items[i].event = "create" =>
                \E k \in 1..Len(started) :
                  /\ started[k].this = c /\ started[k].listener = given.items[i]
                  /\ started[k].idx = i /\ started[k].key = Undefined
       /\ \A k \in 1..Len(started) : started[k].key = Undefined
       /\ getKey([objs |-> objs], c) # Undefined

\* a constructor given a name, a fragment and two listeners on create has
\* returned: both listeners were called, and the key is assigned
C16_Witness ==
  /\ call.op = "new" /\ call.threw = "none"
  /\ Prop(call.arg, "name") = NameA
  /\ Prop(call.arg, "listeners") = OnCreate2
  /\ Len(started) = 2
  /\ getKey([objs |-> objs], call.this) = Num(0)

(***************************************************************************)
(* Properties of concurrent firings.                                       *)
(***************************************************************************)
\* the handlers of declared listeners with at least one action among hs
Chains(hs) ==
  {i \in 1..Len(hs) : hs[i].kind = "listener" /\ hs[i].listener.actions # <<>>}

\* C17: emitLoad() starts the first action of every load listener's chain at
\* once, whatever chains of earlier firings are still suspended, and leaves
\* those as they are: firings of one event are not serialized.
C17_FiringsNotExcluded ==
  [][call'.op = "emitLoad" =>
       /\ SubSeq(tasks', 1, Len(tasks)) = tasks
       /\ Len(tasks') = Len(tasks)
                        + Cardinality(Chains(ListenersOf(objs[call'.this], "load")))
       /\ \A k \in Len(tasks) + 1..Len(tasks') :
            /\ tasks'[k].pc = 1
            /\ tasks'[k].fid = Len(firings')
            /\ tasks'[k].this = call'.this]_vars

\* the chain of the second load firing awaits its second action while the
\* chain of the first still awaits its first
C17_Witness ==
  \E i, j \in 1..Len(tasks) :
    /\ tasks[i].this = tasks[j].this /\ tasks[i].listener = tasks[j].listener
    /\ tasks[i].listener.event = "load" /\ Len(tasks[i].listener.actions) >= 2
    /\ tasks[i].fid < tasks[j].fid
    /\ firings[tasks[i].fid].ev = "load" /\ firings[tasks[j].fid].ev = "load"
    /\ tasks[i].pc = 1 /\ tasks[j].pc = 2

(***************************************************************************)
(* Properties of ifData.                                                   *)
(***************************************************************************)
\* the handlers of declared listeners subscribed on o
ListenerHandlers(o) ==
  UNION {{o[EventsField].subs[e][i] :
            i \in {j \in 1..Len(o[EventsField].subs[e]) :
                     o[EventsField].subs[e][j].kind = "listener"}} :
         e \in DOMAIN o[EventsField].subs}

\* C18: every handler that a set call subscribes for a declared listener
\* holds as ifData the component's passed property, as stored before the call
\* or by the call itself; so it does when passed was stored by an earlier
\* call than the one that supplies the listeners.
C18_IfDataIsPassed ==
  [][(call'.op = "set" /\ call'.threw = "none") =>
       \A h \in ListenerHandlers(objs'[call'.this]) \ ListenerHandlers(objs[call'.this]) :
         h.ifData \in {Field(objs[call'.this], Private(Name("passed"))),
                       Field(objs'[call'.this], Private(Name("passed")))}]_vars

(***************************************************************************)
(* Properties of a clone's milestones.                                     *)
(***************************************************************************)
\* c was made by clone(): its emitters are those of another component
IsClone(os, c) == Field(os[c], EmitLoadedField) # EmitFactory(c, "loaded")

\* C19: set and emitLoad on a clone emit nothing on any other component, and
\* emitLoad on a clone that a set call has wired emits loaded on the clone.
C19_CloneMilestonesIsolated ==
  [][(call'.op \in {"set", "emitLoad"} /\ IsClone(objs, call'.this)) =>
       /\ \A c \in 1..Len(objs) : c # call'.this => emitted'[c] = <<>>
       /\ (call'.op = "emitLoad" /\ ListenersOf(objs[call'.this], "load") # <<>>)
            => EmittedCount(emitted'[call'.this], "loaded") >= 1]_vars

(***************************************************************************)
(* Properties of FormDialog.                                               *)
(***************************************************************************)
\* C20: in mode edit, handleClose(false) leaves state.open as it is and does
\* not call onClose; handleClose(true), and handleClose in any other mode,
\* sets state.open to false and calls onClose once when it is provided.
C20_CloseGuard ==
  [][call'.op = "handleClose" =>
       IF dialog.props.mode = Str("edit") /\ call'.arg = Bool(FALSE)
       THEN /\ dialog'.state.open = dialog.state.open
            /\ dialog'.onCloseCalls = dialog.onCloseCalls
       ELSE /\ dialog'.state.open = FALSE
            /\ dialog'.onCloseCalls =
                 dialog.onCloseCalls + (IF Truthy(dialog.props.onClose) THEN 1 ELSE 0)]_vars

\* in mode edit, with onClose provided and called before, Esc has left the
\* dialog open
C20_Witness ==
  /\ call.op = "handleClose" /\ call.arg = Bool(FALSE)
  /\ dialog.props.mode = Str("edit")
  /\ Truthy(dialog.props.onClose)
  /\ dialog.state.open
  /\ dialog.onCloseCalls = 1

====
